---- MODULE Spec2Model ----
(***************************************************************************)
(* Model of bot.py: the photo handler of the object-detection bot.         *)
(*                                                                         *)
(*   extract_image_features  (bot.py 45-94)   operator, fixed-point maths  *)
(*   draw_boxes              (bot.py 97-115)  operator over a mark list    *)
(*   handle_photo            (bot.py 126-159) one action per statement     *)
(*                                             group, one frame per request *)
(*                                                                         *)
(* Real numbers are exact rationals: a value x is kept as an integer       *)
(* numerator over a stated denominator (thousandths for img_hash,          *)
(* saturation, detail_level and scores), or as a record [num, den].        *)
(* A raster is abstracted by the quantities numpy / cv2 compute from it:   *)
(* its size, its mode, the sum of its pixel values, mean saturation, mean  *)
(* gradient magnitude and the areas of its external contours; plus the     *)
(* list of markings drawn on it.                                           *)
(***************************************************************************)
EXTENDS Integers, Sequences, FiniteSets, TLC

VARIABLES
    models_available,   \* bot.py 36: name -> entry, shared by all requests
    pc,                 \* per request: position inside handle_photo
    frame,              \* per request: the locals of handle_photo
    heap,               \* per request: the PIL image objects it allocated
    outbox,             \* per request: what the bot sent to the chat
    err,                \* per request: the exception that left handle_photo
    calls,              \* per request: the external calls made, in order
    fimg,               \* extract_image_features: the image passed in
    fout,               \* extract_image_features: the list returned
    dargs,              \* draw_boxes: the arguments passed in
    dres                \* draw_boxes: the outcome of the call

vars == <<models_available, pc, frame, heap, outbox, err, calls,
          fimg, fout, dargs, dres>>

pipeVars == <<models_available, pc, frame, heap, outbox, err, calls>>
featVars == <<fimg, fout>>
drawVars == <<dargs, dres>>

----------------------------------------------------------------------------
(* Bounds of the model                                                     *)

MaxContours == 2        \* contours cv2.findContours returns for an image
MaxDets == 2            \* detections a model returns for an image
MaxLabel == 3           \* label indices range over -MaxLabel-1 .. MaxLabel
NumRequests == 2        \* photo messages handled at the same time

----------------------------------------------------------------------------
(* Arithmetic helpers                                                      *)

Max(a, b) == IF a >= b THEN a ELSE b
Min(a, b) == IF a <= b THEN a ELSE b

RECURSIVE SumSeq(_)
SumSeq(s) == IF s = <<>> THEN 0 ELSE Head(s) + SumSeq(Tail(s))

SeqsUpTo(S, n) == UNION {[1..k -> S] : k \in 0..n}

\* Python int() of a non-negative rational num/den: truncation.
PyInt(num, den) == num \div den

\* Python round() of a non-negative rational: nearest, ties to even.
PyRound(num, den) ==
    LET q == num \div den
        r == num % den
    IN  IF 2 * r < den THEN q
        ELSE IF 2 * r > den THEN q + 1
        ELSE IF q % 2 = 0 THEN q ELSE q + 1

NoneVal == [none |-> TRUE]

----------------------------------------------------------------------------
(* extract_image_features, bot.py 45-94                                    *)

HashScale == 1000       \* img_hash, saturation, detail_level in thousandths

\* np.sum(img_array) % 1000 / 1000.0, in thousandths (line 52)
img_hash(image) == image.pix % HashScale

\* lines 54-64: mean S channel / 255 for a colour raster, 0.0 for a
\* single-channel one, in thousandths
saturation(image) == IF image.mode = "RGB" THEN image.sat ELSE 0

\* lines 66-69: mean Sobel gradient magnitude / 255, in thousandths
detail_level(image) == image.detail

\* lines 74-75: contours whose area exceeds 0.1% of the image area
significant_contours(image) ==
    SelectSeq(image.areas, LAMBDA a : a * 1000 > image.w * image.h)

\* line 77
num_objects(image) == Len(significant_contours(image))

\* lines 79-83: mean contour area over the image area, or 0.1
mean_area(image) ==
    IF num_objects(image) > 0
    THEN [num |-> SumSeq(significant_contours(image)),
          den |-> num_objects(image) * image.w * image.h]
    ELSE [num |-> 1, den |-> 10]

\* line 85, with round() in place of int()
num_objects_mod_round(image) ==
    Max(1, PyRound(num_objects(image) * (8000 + 4 * img_hash(image)), 10000))

\* line 85: max(1, int(num_objects * (0.8 + 0.4 * img_hash)))
num_objects_mod(image) ==
    Max(1, PyInt(num_objects(image) * (8000 + 4 * img_hash(image)), 10000))

\* line 86: mean_area * (0.7 + 0.6 * img_hash)
mean_area_mod(image) ==
    [num |-> mean_area(image).num * (7000 + 6 * img_hash(image)),
     den |-> mean_area(image).den * 10000]

\* line 87: max(1, int(5 * saturation + 3 * detail_level + 2 * img_hash))
categories_mod(image) ==
    Max(1, PyInt(5 * saturation(image) + 3 * detail_level(image)
                   + 2 * img_hash(image), HashScale))

\* line 48: h / w
ratio_hw(image) == [num |-> image.h, den |-> image.w]

\* min(x, 1.0) of a rational with a positive denominator (line 91)
RatMin1(x) == IF x.num > x.den THEN [num |-> 1, den |-> 1] ELSE x

\* lines 89-94 without the two min() clamps
extract_image_features_unclamped(image) ==
    << num_objects_mod(image),
       mean_area_mod(image),
       categories_mod(image),
       ratio_hw(image) >>

\* lines 89-94: the list returned
extract_image_features(image) ==
    << num_objects_mod(image),
       RatMin1(mean_area_mod(image)),
       Min(categories_mod(image), 10),
       ratio_hw(image) >>

(* The rasters the function is applied to *)

Sizes == {<<1, 1>>, <<100, 100>>, <<200, 50>>, <<80, 125>>}
PixSums == {0, 250, 999, 2750}
SatVals == {0, 500, 1000}
DetailVals == {0, 400, 5600}
AreaVals == {0, 10, 11, 3000, 9000}

\* What numpy / cv2 can measure on a raster of that size
ValidImage(image) ==
    /\ image.pix <= 255 * image.w * image.h * (IF image.mode = "RGB" THEN 3 ELSE 1)
    /\ image.mode = "L" => image.sat = 0
    /\ image.w * image.h = 1 => image.detail = 0
    /\ image.pix = 0 => image.sat = 0 /\ image.detail = 0 /\ image.areas = <<>>
    /\ \A i \in DOMAIN image.areas : image.areas[i] < image.w * image.h
    /\ SumSeq(image.areas) <= image.w * image.h

FeatImages ==
    { image \in [w : {s[1] : s \in Sizes}, h : {s[2] : s \in Sizes},
                 mode : {"RGB", "L"}, pix : PixSums, sat : SatVals,
                 detail : DetailVals, areas : SeqsUpTo(AreaVals, MaxContours),
                 marks : {<<>>}] :
        <<image.w, image.h>> \in Sizes /\ ValidImage(image) }

----------------------------------------------------------------------------
(* draw_boxes, bot.py 97-115                                               *)

\* scores and thresholds are kept in thousandths
DefaultThreshold == 500     \* threshold=0.5 (line 97)

\* categories[lbl] on a Python list: indices -len .. len-1 resolve,
\* a negative one counting from the end; any other raises IndexError
PyIndexOk(list, i) == -Len(list) <= i /\ i < Len(list)
PyIndex(list, i) == IF i >= 0 THEN list[i + 1] ELSE list[Len(list) + i + 1]

\* f"{categories[lbl]} {score*100:.0f}%" (line 108)
label_text(categories, lbl, score) ==
    <<PyIndex(categories, lbl), PyRound(score * 100, 1000), "%">>

\* line 111: the eight offsets of the outline
OutlineOffsets ==
    << <<-1, -1>>, <<-1, 0>>, <<-1, 1>>, <<0, -1>>,
       <<0, 1>>, <<1, -1>>, <<1, 0>>, <<1, 1>> >>

\* line 107: draw.rectangle([x1, y1, x2, y2], outline="lime", width=3)
rectangle_mark(i, box) ==
    [kind |-> "rectangle", det |-> i, at |-> box, text |-> <<>>, fill |-> "lime"]

\* lines 110-112: the label drawn eight times in black around its place
outline_marks(i, box, label) ==
    [k \in 1..Len(OutlineOffsets) |->
        [kind |-> "text", det |-> i,
         at |-> <<box[1] + 3 + OutlineOffsets[k][1], box[2] - 3 + OutlineOffsets[k][2]>>,
         text |-> label, fill |-> "black"]]

\* line 114: the label itself, in white
text_mark(i, box, label) ==
    [kind |-> "text", det |-> i, at |-> <<box[1] + 3, box[2] - 3>>,
     text |-> label, fill |-> "white"]

\* line 104 with <= in place of <
skip_detection_le(score, threshold) == score <= threshold

\* line 104: if score < threshold: continue
skip_detection(score, threshold) == score < threshold

\* lines 103-114: the loop from detection i on; marks is what the image
\* holds so far.  `det` in a mark records which detection drew it.
RECURSIVE draw_loop(_, _, _, _, _)
draw_loop(marks, dets, i, categories, threshold) ==
    IF i > Len(dets) THEN [marks |-> marks, raised |-> FALSE]
    ELSE LET d == dets[i]
             withRect == Append(marks, rectangle_mark(i, d.box))
         IN  IF skip_detection(d.score, threshold)
             THEN draw_loop(marks, dets, i + 1, categories, threshold)
             ELSE IF ~PyIndexOk(categories, d.lbl)
             THEN [marks |-> withRect, raised |-> TRUE]
             ELSE LET label == label_text(categories, d.lbl, d.score)
                  IN  draw_loop(withRect \o outline_marks(i, d.box, label)
                                         \o <<text_mark(i, d.box, label)>>,
                                dets, i + 1, categories, threshold)

\* lines 97-115: draws on the image object it is given; raised = an
\* IndexError left the loop (the marks drawn before it stay on the object)
draw_boxes(image, dets, categories, threshold) ==
    LET r == draw_loop(image.marks, dets, 1, categories, threshold)
    IN  [image |-> [image EXCEPT !.marks = r.marks], raised |-> r.raised]

(* The arguments draw_boxes is applied to *)

Boxes == {<<10, 10, 50, 50>>}
Scores == {499, 500, 905}
Thresholds == {DefaultThreshold, 905}
Vocabulary == <<"__background__", "person", "car">>

Detections == [box : Boxes, lbl : (-MaxLabel - 1)..MaxLabel, score : Scores]

BlankImage ==
    [w |-> 100, h |-> 100, mode |-> "RGB", pix |-> 2750, sat |-> 500,
     detail |-> 400, areas |-> <<3000>>, marks |-> <<>>]

\* marks on an image drawn for detection i, of one kind and fill
MarksOf(image, i, kind, fill) ==
    {k \in DOMAIN image.marks :
        /\ image.marks[k].det = i
        /\ image.marks[k].kind = kind
        /\ image.marks[k].fill = fill}

----------------------------------------------------------------------------
(* Module state of bot.py after import, lines 35-42                        *)

Requests == 1..NumRequests

\* models_available as initialize_models returns it (line 36): three fields
\* per entry, read at lines 143, 144 and 158
Registry ==
    [fasterrcnn |-> [name |-> "Faster R-CNN", model |-> "detector_frcnn",
                     categories |-> Vocabulary],
     ssdlite    |-> [name |-> "SSDLite", model |-> "detector_ssdlite",
                     categories |-> <<"__background__", "cat">>]]

\* the classes selector.predict can answer with (line 141); the classifier
\* is a separate artefact and may know a name the registry does not hold
SelectorClasses == DOMAIN Registry \cup {"retinanet"}

\* Image.convert("RGB") of line 136: a single-channel raster becomes three
\* equal channels, so the sum of its pixel values triples
ConvertRGB(image) ==
    IF image.mode = "L"
    THEN [image EXCEPT !.mode = "RGB", !.pix = 3 * image.pix]
    ELSE image

\* what bot.download_file can hand back (line 135)
PipeImages ==
    { BlankImage,
      [w |-> 200, h |-> 50, mode |-> "L", pix |-> 999, sat |-> 0,
       detail |-> 0, areas |-> <<>>, marks |-> <<>>] }
PipeBytes == {[valid |-> FALSE, img |-> NoneVal]}
             \cup {[valid |-> TRUE, img |-> i] : i \in PipeImages}

\* what model(tensor)[0] can hand back (line 148)
PipePreds ==
    { <<>>,
      <<[box |-> <<10, 10, 50, 50>>, lbl |-> 1, score |-> 905]>>,
      <<[box |-> <<10, 10, 50, 50>>, lbl |-> 2, score |-> 500]>> }

EmptyFrame ==
    [img_bytes |-> NoneVal, image |-> "", feats |-> <<>>, chosen_key |-> "",
     model_info |-> NoneVal, model |-> "", categories |-> <<>>,
     pred |-> NoneVal, result_img |-> "", buf |-> NoneVal]

EmptyHeap == [orig |-> NoneVal, copy |-> NoneVal, arg |-> ""]

NoErr == [type |-> "", arg |-> ""]

InitPipe ==
    /\ models_available = Registry
    /\ pc = [r \in Requests |-> "start"]
    /\ frame = [r \in Requests |-> EmptyFrame]
    /\ heap = [r \in Requests |-> EmptyHeap]
    /\ outbox = [r \in Requests |-> <<>>]
    /\ err = [r \in Requests |-> NoErr]
    /\ calls = [r \in Requests |-> <<>>]

InitFeatIdle == fimg = BlankImage /\ fout = NoneVal
InitDrawIdle ==
    /\ dargs = [image |-> BlankImage, dets |-> <<>>,
                categories |-> Vocabulary, threshold |-> DefaultThreshold]
    /\ dres = NoneVal

----------------------------------------------------------------------------
(* handle_photo, bot.py 126-159: one frame per request                     *)

\* lines 126-127 swapped: the handler registered is the undecorated one,
\* an exception ends it without reaching catch_exceptions
Raise_uncaught(r, type, arg) ==
    /\ pc' = [pc EXCEPT ![r] = "crashed"]
    /\ err' = [err EXCEPT ![r] = [type |-> type, arg |-> arg]]
    /\ frame' = [frame EXCEPT ![r] = EmptyFrame]
    /\ heap' = [heap EXCEPT ![r] = EmptyHeap]

\* an exception leaves handle_photo for its decorator (lines 126-128): the
\* frame and its objects are gone
Raise(r, type, arg) ==
    /\ pc' = [pc EXCEPT ![r] = "raised"]
    /\ err' = [err EXCEPT ![r] = [type |-> type, arg |-> arg]]
    /\ frame' = [frame EXCEPT ![r] = EmptyFrame]
    /\ heap' = [heap EXCEPT ![r] = EmptyHeap]

Goto(r, label) == pc' = [pc EXCEPT ![r] = label]

Called(r, what) == calls' = [calls EXCEPT ![r] = Append(@, what)]

\* lines 129-135: bot.get_file / bot.download_file
Download(r) ==
    /\ pc[r] = "start"
    /\ Called(r, <<"download">>)
    /\ \/ \E b \in PipeBytes :
            /\ frame' = [frame EXCEPT ![r].img_bytes = b]
            /\ Goto(r, "decode")
            /\ UNCHANGED <<heap, err>>
       \/ Raise(r, "ApiException", "download_file")
    /\ UNCHANGED <<models_available, outbox, featVars, drawVars>>

\* line 136 with undecodable bytes replaced by a blank raster
Decode_lenient(r) ==
    /\ pc[r] = "decode"
    /\ Called(r, <<"decode">>)
    /\ heap' = [heap EXCEPT ![r].orig =
                  IF frame[r].img_bytes.valid
                  THEN ConvertRGB(frame[r].img_bytes.img) ELSE BlankImage]
    /\ frame' = [frame EXCEPT ![r].image = "orig"]
    /\ Goto(r, "extract")
    /\ UNCHANGED <<models_available, outbox, err, featVars, drawVars>>

\* line 136: Image.open(io.BytesIO(img_bytes)).convert("RGB")
Decode(r) ==
    /\ pc[r] = "decode"
    /\ Called(r, <<"decode">>)
    /\ IF frame[r].img_bytes.valid
       THEN /\ heap' = [heap EXCEPT ![r].orig = ConvertRGB(frame[r].img_bytes.img)]
            /\ frame' = [frame EXCEPT ![r].image = "orig"]
            /\ Goto(r, "extract")
            /\ UNCHANGED err
       ELSE Raise(r, "UnidentifiedImageError", "img_bytes")
    /\ UNCHANGED <<models_available, outbox, featVars, drawVars>>

\* line 138: feats = extract_image_features(image)
Extract(r) ==
    /\ pc[r] = "extract"
    /\ Called(r, <<"extract">>)
    /\ frame' = [frame EXCEPT ![r].feats =
                    extract_image_features(heap[r][frame[r].image])]
    /\ Goto(r, "select")
    /\ UNCHANGED <<models_available, heap, outbox, err, featVars, drawVars>>

\* lines 140-141: chosen_key = selector.predict(df_feats)[0]
Select(r) ==
    /\ pc[r] = "select"
    /\ Called(r, <<"select">>)
    /\ \/ \E key \in SelectorClasses :
            /\ frame' = [frame EXCEPT ![r].chosen_key = key]
            /\ Goto(r, "lookup")
            /\ UNCHANGED <<heap, err>>
       \/ Raise(r, "ValueError", "predict")
    /\ UNCHANGED <<models_available, outbox, featVars, drawVars>>

\* lines 142-144 written with dict.setdefault: an unknown name is entered
\* into the registry with the first entry's content
Lookup_setdefault(r) ==
    /\ pc[r] = "lookup"
    /\ Called(r, <<"lookup">>)
    /\ LET key == frame[r].chosen_key
           reg == IF key \in DOMAIN models_available THEN models_available
                  ELSE [k \in DOMAIN models_available \cup {key} |->
                          IF k = key THEN models_available["fasterrcnn"]
                          ELSE models_available[k]]
       IN  /\ models_available' = reg
           /\ frame' = [frame EXCEPT ![r].model_info = reg[key],
                                     ![r].model = reg[key].model,
                                     ![r].categories = reg[key].categories]
    /\ Goto(r, "infer")
    /\ UNCHANGED <<heap, outbox, err, featVars, drawVars>>

\* lines 142-144 with the vocabulary read from another entry than the model
Lookup_mixed(r) ==
    /\ pc[r] = "lookup"
    /\ Called(r, <<"lookup">>)
    /\ IF frame[r].chosen_key \in DOMAIN models_available
       THEN /\ frame' = [frame EXCEPT
                  ![r].model_info = models_available[frame[r].chosen_key],
                  ![r].model = models_available[frame[r].chosen_key].model,
                  ![r].categories = models_available["fasterrcnn"].categories]
            /\ Goto(r, "infer")
            /\ UNCHANGED <<heap, err>>
       ELSE Raise(r, "KeyError", frame[r].chosen_key)
    /\ UNCHANGED <<models_available, outbox, featVars, drawVars>>

\* lines 142-144: model_info = models_available[chosen_key]; model and
\* categories are read from model_info
Lookup(r) ==
    /\ pc[r] = "lookup"
    /\ Called(r, <<"lookup">>)
    /\ IF frame[r].chosen_key \in DOMAIN models_available
       THEN /\ frame' = [frame EXCEPT
                  ![r].model_info = models_available[frame[r].chosen_key],
                  ![r].model = models_available[frame[r].chosen_key].model,
                  ![r].categories = models_available[frame[r].chosen_key].categories]
            /\ Goto(r, "infer")
            /\ UNCHANGED <<heap, err>>
       ELSE Raise(r, "KeyError", frame[r].chosen_key)
    /\ UNCHANGED <<models_available, outbox, featVars, drawVars>>

\* lines 146-148: pred = model(tensor)[0]
Infer(r) ==
    /\ pc[r] = "infer"
    /\ Called(r, <<"infer", frame[r].model>>)
    /\ \/ \E p \in PipePreds :
            /\ frame' = [frame EXCEPT ![r].pred = [dets |-> p]]
            /\ Goto(r, "copy")
            /\ UNCHANGED <<heap, err>>
       \/ Raise(r, "RuntimeError", "forward")
    /\ UNCHANGED <<models_available, outbox, featVars, drawVars>>

\* line 150 with `image` passed in place of `image.copy()`
CopyForDraw_alias(h, image) == [h EXCEPT !.arg = image]

\* line 150, the argument image.copy(): a new object with the same content
CopyForDraw(h, image) == [h EXCEPT !.copy = h[image], !.arg = "copy"]

CopyImage(r) ==
    /\ pc[r] = "copy"
    /\ heap' = [heap EXCEPT ![r] = CopyForDraw(heap[r], frame[r].image)]
    /\ Goto(r, "draw")
    /\ UNCHANGED <<models_available, frame, outbox, err, calls, featVars, drawVars>>

\* line 150, the call: result_img = draw_boxes(<arg>, pred["boxes"],
\* pred["labels"], pred["scores"], categories); line 115 returns the object
\* it was given
DrawBoxes(r) ==
    /\ pc[r] = "draw"
    /\ Called(r, <<"draw", frame[r].categories>>)
    /\ LET arg == heap[r].arg
           res == draw_boxes(heap[r][arg], frame[r].pred.dets,
                             frame[r].categories, DefaultThreshold)
       IN  IF res.raised
           THEN Raise(r, "IndexError", "categories")
           ELSE /\ heap' = [heap EXCEPT ![r][arg] = res.image]
                /\ frame' = [frame EXCEPT ![r].result_img = arg]
                /\ Goto(r, "encode")
                /\ UNCHANGED err
    /\ UNCHANGED <<models_available, outbox, featVars, drawVars>>

\* lines 151-153: result_img.save(buf, format="JPEG")
Encode(r) ==
    /\ pc[r] = "encode"
    /\ Called(r, <<"encode">>)
    /\ \/ /\ frame' = [frame EXCEPT ![r].buf =
                          [format |-> "JPEG", of |-> heap[r][frame[r].result_img]]]
          /\ Goto(r, "send")
          /\ UNCHANGED <<heap, err>>
       \/ Raise(r, "OSError", "save")
    /\ UNCHANGED <<models_available, outbox, featVars, drawVars>>

\* lines 155-159: bot.send_photo(chat_id, buf, caption=...)
SendPhoto(r) ==
    /\ pc[r] = "send"
    /\ Called(r, <<"send_photo">>)
    /\ \/ /\ outbox' = [outbox EXCEPT ![r] = Append(@,
                  [kind |-> "photo", data |-> frame[r].buf,
                   caption |-> <<"Model used: ", frame[r].model_info.name>>])]
          /\ Goto(r, "done")
          /\ UNCHANGED <<frame, heap, err>>
       \/ /\ Raise(r, "ApiException", "send_photo")
          /\ UNCHANGED outbox
    /\ UNCHANGED <<models_available, featVars, drawVars>>

\* line 127, @catch_exceptions (src/utils.py): an exception that leaves
\* handle_photo is caught and answered with one failure notice
CatchExceptions(r) ==
    /\ pc[r] = "raised"
    /\ outbox' = [outbox EXCEPT ![r] = Append(@,
            [kind |-> "text", data |-> NoneVal, caption |-> <<"failure">>])]
    /\ Goto(r, "notified")
    /\ UNCHANGED <<models_available, frame, heap, err, calls, featVars, drawVars>>

Init == InitPipe /\ InitFeatIdle /\ InitDrawIdle

Next ==
    \E r \in Requests :
        \/ Download(r)
        \/ Decode(r)
        \/ Extract(r)
        \/ Select(r)
        \/ Lookup(r)
        \/ Infer(r)
        \/ CopyImage(r)
        \/ DrawBoxes(r)
        \/ Encode(r)
        \/ SendPhoto(r)
        \/ CatchExceptions(r)

Spec == Init /\ [][Next]_vars

----------------------------------------------------------------------------
(* extract_image_features applied to every raster of FeatImages            *)

InitFeat == InitPipe /\ InitDrawIdle /\ fimg \in FeatImages /\ fout = NoneVal

ExtractFeatures ==
    /\ fout = NoneVal
    /\ fout' = [feats |-> extract_image_features(fimg)]
    /\ UNCHANGED <<fimg, pipeVars, drawVars>>

NextFeat == ExtractFeatures

SpecFeat == InitFeat /\ [][NextFeat]_vars

----------------------------------------------------------------------------
(* draw_boxes applied to every list of detections up to MaxDets            *)

InitDraw ==
    /\ InitPipe /\ InitFeatIdle
    /\ dargs \in [image : {BlankImage}, dets : SeqsUpTo(Detections, MaxDets),
                  categories : {Vocabulary}, threshold : Thresholds]
    /\ dres = NoneVal

CallDrawBoxes ==
    /\ dres = NoneVal
    /\ dres' = draw_boxes(dargs.image, dargs.dets, dargs.categories, dargs.threshold)
    /\ UNCHANGED <<dargs, pipeVars, featVars>>

NextDraw == CallDrawBoxes

SpecDraw == InitDraw /\ [][NextDraw]_vars

----------------------------------------------------------------------------
(* Properties of extract_image_features (SpecFeat)                         *)

\* the exact value of num_objects * (0.8 + 0.4 * img_hash), over 10000
ObjectsExact(image) == num_objects(image) * (8000 + 4 * img_hash(image))
\* the exact value of 5*saturation + 3*detail_level + 2*img_hash, over 1000
CategoriesExact(image) ==
    5 * saturation(image) + 3 * detail_level(image) + 2 * img_hash(image)

\* k is num/den truncated; k is an integer nearest to num/den
IsTruncation(k, num, den) == k * den <= num /\ num < (k + 1) * den
IsNearest(k, num, den) == 2 * k * den - den <= 2 * num /\ 2 * num <= 2 * k * den + den

\* C1: for every valid image the list returned has four elements, in the
\* order num_objects_mod, mean_area_mod, categories_mod, ratio_hw, with
\* num_objects_mod >= 1, 0 <= mean_area_mod <= 1, 1 <= categories_mod <= 10
\* and ratio_hw = h / w.
C1_FingerprintRange ==
    fout # NoneVal =>
        LET f == fout.feats
        IN  /\ Len(f) = 4
            /\ f[1] \in Int /\ f[1] >= 1
            /\ f[2].den > 0 /\ 0 <= f[2].num /\ f[2].num <= f[2].den
            /\ f[3] \in Int /\ 1 <= f[3] /\ f[3] <= 10
            /\ f[4].den > 0 /\ f[4].num * fimg.w = fimg.h * f[4].den

\* C1 witness: a raster whose raw category estimate exceeds 10 and whose
\* raw mean area exceeds 1 has been fingerprinted.
C1_Witness ==
    /\ fout # NoneVal
    /\ CategoriesExact(fimg) > 10 * HashScale
    /\ mean_area_mod(fimg).num > mean_area_mod(fimg).den
    /\ fimg.w # fimg.h

\* C9 as stated: num_objects_mod and categories_mod are the estimates
\* rounded to the nearest integer (then clamped).
C9_RoundedToNearest ==
    fout # NoneVal =>
        /\ \E k \in 0..(ObjectsExact(fimg) \div 10000 + 1) :
              IsNearest(k, ObjectsExact(fimg), 10000) /\ fout.feats[1] = Max(1, k)
        /\ \E k \in 0..(CategoriesExact(fimg) \div HashScale + 1) :
              /\ IsNearest(k, CategoriesExact(fimg), HashScale)
              /\ fout.feats[3] = Max(1, Min(k, 10))

\* C9 amended: num_objects_mod and categories_mod are the estimates
\* truncated toward zero, as int() does (then clamped).
C9_Truncated ==
    fout # NoneVal =>
        /\ \E k \in 0..(ObjectsExact(fimg) \div 10000 + 1) :
              IsTruncation(k, ObjectsExact(fimg), 10000) /\ fout.feats[1] = Max(1, k)
        /\ \E k \in 0..(CategoriesExact(fimg) \div HashScale + 1) :
              /\ IsTruncation(k, CategoriesExact(fimg), HashScale)
              /\ fout.feats[3] = Max(1, Min(k, 10))

\* C9 witness: two significant contours and an estimate of 1.8 objects
\* gave num_objects_mod = 1, and a category estimate of 6.7 gave 6.
C9_Witness ==
    /\ fout # NoneVal
    /\ num_objects(fimg) = 2 /\ ObjectsExact(fimg) = 18000 /\ fout.feats[1] = 1
    /\ CategoriesExact(fimg) = 6700 /\ fout.feats[3] = 6

----------------------------------------------------------------------------
(* Properties of draw_boxes (SpecDraw)                                     *)

Rectangles(i) == MarksOf(dres.image, i, "rectangle", "lime")
Labels(i) == MarksOf(dres.image, i, "text", "white")
Outlines(i) == MarksOf(dres.image, i, "text", "black")
Drawn(i) == {k \in DOMAIN dres.image.marks : dres.image.marks[k].det = i}

C7_LabelIndexValidated ==
    dres # NoneVal =>
        \A i \in DOMAIN dargs.dets :
            /\ dargs.dets[i].score >= dargs.threshold
            /\ dargs.dets[i].lbl \notin 0..(Len(dargs.categories) - 1)
            => dres.raised /\ Labels(i) = {}

----------------------------------------------------------------------------
(* Properties of handle_photo (Spec)                                       *)

Photos(r) == {k \in DOMAIN outbox[r] : outbox[r][k].kind = "photo"}
Notices(r) == {k \in DOMAIN outbox[r] : outbox[r][k].kind = "text"}
Ran(r, stage) == \E k \in DOMAIN calls[r] : calls[r][k][1] = stage
AllStages ==
    <<"download", "decode", "extract", "select", "lookup", "infer", "draw",
      "encode", "send_photo">>
StagesRun(r) == [k \in DOMAIN calls[r] |-> calls[r][k][1]]

\* C3 as stated: the call of draw_boxes leaves the image object passed in
\* unchanged.
C3_ArgumentUnchanged ==
    [][\A r \in Requests :
          pc[r] = "draw" /\ pc'[r] = "encode" =>
              heap'[r][heap[r].arg] = heap[r][heap[r].arg]]_vars

\* C3 amended: draw_boxes returns the object it was given, drawn on; that
\* object is a copy made by handle_photo, so the decoded image of the
\* request is unchanged and never carries a marking, and the returned image
\* has the dimensions of the input.
C3_OriginalUnchanged ==
    [][\A r \in Requests :
          /\ heap'[r].orig # NoneVal => heap'[r].orig.marks = <<>>
          /\ pc[r] = "draw" /\ pc'[r] = "encode" =>
                /\ frame'[r].result_img = heap[r].arg
                /\ heap[r].arg # frame[r].image
                /\ heap'[r].orig = heap[r].orig
                /\ heap'[r][frame'[r].result_img].w = heap[r].orig.w
                /\ heap'[r][frame'[r].result_img].h = heap[r].orig.h]_vars

\* C3 witness: a request whose annotated image carries markings while its
\* decoded image carries none.
C3_Witness ==
    \E r \in Requests :
        /\ pc[r] = "encode"
        /\ heap[r][frame[r].result_img].marks # <<>>
        /\ heap[r].orig.marks = <<>>
        /\ heap[r].orig.w = 200

\* C4: a name the registry does not hold makes the lookup raise (KeyError
\* naming it): no entry is substituted, and a request that ended so ran no
\* inference, no annotation, and sent no image.
C4_UnknownModelRaises ==
    [][\A r \in Requests :
          /\ pc[r] = "lookup" /\ pc'[r] # "lookup"
             /\ frame[r].chosen_key \notin DOMAIN models_available
             => /\ pc'[r] = "raised"
                /\ err'[r] = [type |-> "KeyError", arg |-> frame[r].chosen_key]
                /\ frame'[r].model_info = NoneVal /\ frame'[r].model = ""
          /\ err'[r].type = "KeyError" =>
                /\ pc'[r] \in {"raised", "notified"}
                /\ ~Ran(r, "infer")' /\ ~Ran(r, "draw")' /\ ~Ran(r, "send_photo")'
                /\ Photos(r)' = {}]_vars

\* C4 witness: a request for which the selector answered "retinanet" has
\* ended.
C4_Witness ==
    \E r \in Requests :
        /\ pc[r] = "notified"
        /\ err[r] = [type |-> "KeyError", arg |-> "retinanet"]

\* C5: undecodable bytes make the decoding raise, and a request that ended
\* so attempted nothing after it: the calls made are the download and the
\* decoding, and no photo was sent.
C5_DecodeFailureStops ==
    [][\A r \in Requests :
          /\ pc[r] = "decode" /\ pc'[r] # "decode" /\ ~frame[r].img_bytes.valid
             => pc'[r] = "raised" /\ err'[r].type = "UnidentifiedImageError"
          /\ err'[r].type = "UnidentifiedImageError" =>
                /\ pc'[r] \in {"raised", "notified"}
                /\ StagesRun(r)' = <<"download", "decode">>
                /\ Photos(r)' = {}]_vars

\* C5 witness: a request whose bytes did not decode has ended.
C5_Witness ==
    \E r \in Requests :
        pc[r] = "notified" /\ err[r].type = "UnidentifiedImageError"

C8_OneEntryPerRequest ==
    \A r \in Requests :
        Photos(r) # {} =>
            LET entry == models_available[frame[r].chosen_key]
            IN  /\ \A k \in Photos(r) :
                      outbox[r][k].caption = <<"Model used: ", entry.name>>
                /\ \A k \in DOMAIN calls[r] :
                      /\ calls[r][k][1] = "infer" => calls[r][k][2] = entry.model
                      /\ calls[r][k][1] = "draw" => calls[r][k][2] = entry.categories
                /\ Ran(r, "infer") /\ Ran(r, "draw")

\* C8 witness: two requests answered with images by different models.
C8_Witness ==
    \E r, q \in Requests :
        /\ Photos(r) # {} /\ frame[r].chosen_key = "ssdlite"
        /\ Photos(q) # {} /\ frame[q].chosen_key = "fasterrcnn"

\* C10: no step of any request changes the registry, and a step changes
\* the frame, objects, messages, error and call log of one request only.
C10_RegistryReadOnly ==
    [][/\ models_available' = models_available
       /\ models_available = Registry
       /\ \A r \in Requests :
             pc'[r] = pc[r] =>
                 /\ frame'[r] = frame[r] /\ heap'[r] = heap[r]
                 /\ outbox'[r] = outbox[r] /\ err'[r] = err[r]
                 /\ calls'[r] = calls[r]]_vars

\* C10 witness: two requests are inside handle_photo at the same time, one
\* annotating and one about to look its model up.
C10_Witness ==
    \E r, q \in Requests :
        /\ pc[r] = "draw" /\ heap[r].copy # NoneVal
        /\ pc[q] = "lookup" /\ frame[q].chosen_key = "retinanet"

====
